---- MODULE Spec2Model ----
(***************************************************************************)
(* Model of homeassistant/components/ollama/conversation.py: the Ollama    *)
(* conversation agent.  One turn (async_process) is a process per          *)
(* conversation id; it is cut into atomic steps at its suspension points   *)
(* (the awaits: llm.async_get_api, auth.async_get_user, client.chat,       *)
(* llm_api.async_call_tool).  Turns of different conversation ids          *)
(* interleave at those points; every step between two awaits is atomic,    *)
(* as it is on the asyncio event loop.                                     *)
(***************************************************************************)
EXTENDS Integers, Sequences, FiniteSets, TLC

(***************************************************************************)
(* Bounds of the exploration.                                              *)
(***************************************************************************)
\* Conversation ids the callers use (supplied, or generated by ulid_now()).
ConvIds == {"c1", "c2"}

\* The monotonic clock runs from 0 to MaxClock.
MaxClock == 2

\* Two environments are explored (env, fixed by Init):
\*   "solo":   callers talk on one conversation id; the model server may keep
\*             asking for the same tool up to the iteration cap;
\*   "shared": callers talk on every id of ConvIds and their turns overlap;
\*             the model server asks for tools (SharedShapes) on at most
\*             MaxVaried calls of a turn, and only in conversation "c1"; the
\*             callers have no user name.
\* In "solo" the server picks its reply freely among ReplyShapes on the first
\* MaxVaried calls of a turn; in both, any call may fail.
MaxVaried == 1

\* A new turn is started on a conversation only while its stored history holds
\* at most MaxLen ("solo") or MaxSharedLen ("shared") messages (with
\* max_messages < 1 a history grows for ever).
MaxLen == 6
MaxSharedLen == 3

(***************************************************************************)
(* Program constants.                                                      *)
(***************************************************************************)
\* conversation.py line 37.
MAX_TOOL_ITERATIONS == 10

\* Imported from .const (conversation.py line 32); the TTL of an idle
\* history, here in ticks of the model's clock.
MAX_HISTORY_SECONDS == 1

\* Values of CONF_MAX_HISTORY the entry may be configured with.
MaxHistoryChoices == {0, 1, 2}

None == "None"

VARIABLES
    env,               \* the environment explored: "solo" or "shared"
    now,               \* time.monotonic()
    settings,          \* {**entry.data, **entry.options}: llm_hass_api, max_history
    history,           \* keys of self._history; the value under key c is objs[c]
    objs,              \* the MessageHistory object created for each conversation id
    pc,                \* position of the turn of each conversation id
    user_input,        \* user_input.conversation_id (None when the caller gave none)
    llm_api,           \* local llm_api: TRUE once llm.async_get_api returned
    tools,             \* local tools: the formatted tool list (<<>> while None)
    user_name,         \* local user_name
    iteration,         \* number of client.chat calls issued in this turn
    response_message,  \* local response_message: the last reply of the model server
    tool_pos,          \* index in tool_calls of the tool call being awaited
    result             \* the ConversationResult returned by the turn

vars == <<env, now, settings, history, objs, pc, user_input, llm_api, tools,
          user_name, iteration, response_message, tool_pos, result>>

turn_locals == <<llm_api, tools, user_name, iteration, response_message, tool_pos>>

(***************************************************************************)
(* Messages (ollama.Message): role, optional content, optional tool_calls. *)
(* A key that is absent from the dict is NoContent / the empty sequence.   *)
(***************************************************************************)
NoContent == "<absent>"

Message(role, content, tool_calls) ==
    [role |-> role, content |-> content, tool_calls |-> tool_calls]

NoHistory == [timestamp |-> 0, messages |-> <<>>]

NoReply == [role |-> None, content |-> "", tool_calls |-> <<>>]

NoResult == [response_type |-> None, error_code |-> None, speech |-> "",
             conversation_id |-> None]

\* The text of the caller's utterance.
UserText == "turn on the kitchen light"

\* Names the caller identity resolver may give (None: no user, or no name).
UserNames == {None, "Ann"}

(***************************************************************************)
(* The tool registry (llm.APIInstance), external.  A tool call names a     *)
(* tool and its arguments; the registry either returns the tool's result   *)
(* or raises vol.Invalid / HomeAssistantError.                             *)
(***************************************************************************)
CallOn  == [name |-> "light_on", arguments |-> "kitchen"]
CallBad == [name |-> "light_on", arguments |-> "nowhere"]
CallErr == [name |-> "script", arguments |-> "run"]

\* What async_call_tool does with a call: ok with a result, or raises an
\* exception of a class with a message (str(e), possibly empty).
ToolOutcomes(call) ==
    IF call = CallOn
    THEN {[ok |-> TRUE, kind |-> "", text |-> call.arguments \o " is on"]}
    ELSE IF call = CallBad
    THEN {[ok |-> FALSE, kind |-> "Invalid", text |-> "unknown area"]}
    ELSE {[ok |-> FALSE, kind |-> "HomeAssistantError", text |-> ""]}

\* The tool descriptors (llm.Tool) a registry may expose: a name, a
\* description (a text, the empty text, or None) and a parameter schema,
\* given by the names of its fields.
ToolLight ==
    [name |-> "light_on", description |-> "Turns a light on",
     parameters |-> <<"area">>]
ToolBare ==
    [name |-> "light_off", description |-> "", parameters |-> <<"area">>]
ToolScript ==
    [name |-> "script", description |-> None, parameters |-> <<>>]

\* The replies the model server may give: with or without text, with or
\* without tool calls.
PlainShape == [text |-> TRUE, tool_calls |-> <<>>]
LoopShape == [text |-> TRUE, tool_calls |-> <<CallOn>>]

ReplyShapes ==
    {PlainShape, LoopShape,
     [text |-> FALSE, tool_calls |-> <<CallBad, CallOn>>],
     [text |-> FALSE, tool_calls |-> <<CallErr>>]}


\* The replies it gives while conversations share the entity.
SharedShapes ==
    {PlainShape, [text |-> FALSE, tool_calls |-> <<CallBad, CallOn>>]}

\* The text of the reply to the n-th call of a turn.
ReplyText(n) == "reply " \o ToString(n)

Reply(shape, n) ==
    [role |-> "assistant",
     content |-> IF shape.text THEN ReplyText(n) ELSE "",
     tool_calls |-> shape.tool_calls]

(***************************************************************************)
(* Pure functions of the program.                                          *)
(***************************************************************************)
\* voluptuous_openapi.convert (called at line 48): the schema as an object
\* with one property per field, each typed by the custom serializer when
\* there is one.
convert(parameters, custom_serializer) ==
    [type |-> "object",
     properties |-> [i \in 1..Len(parameters) |->
                       [name |-> parameters[i],
                        type |-> IF custom_serializer = None THEN "string"
                                 ELSE custom_serializer]]]

\* Faulty variant: the description key is always set, whatever the descriptor has.
format_tool_always_description(tool, custom_serializer) ==
    [type |-> "function",
     function |-> [name |-> tool.name,
                   parameters |-> convert(tool.parameters, custom_serializer),
                   description |-> tool.description]]

\* _format_tool (lines 42-52): the description key is set only when
\* tool.description is truthy (neither None nor empty).
format_tool(tool, custom_serializer) ==
    LET tool_spec == [name |-> tool.name,
                      parameters |-> convert(tool.parameters, custom_serializer)]
    IN  [type |-> "function",
         function |-> IF tool.description \notin {None, ""}
                      THEN [name |-> tool_spec.name,
                            parameters |-> tool_spec.parameters,
                            description |-> tool.description]
                      ELSE tool_spec]

\* Python's s[i:] for a list s and an integer i (a negative i counts from
\* the end; an index outside the list is clamped).
PySliceFrom(s, i) ==
    LET start == IF i < 0
                 THEN (IF Len(s) + i < 0 THEN 0 ELSE Len(s) + i)
                 ELSE (IF i > Len(s) THEN Len(s) ELSE i)
    IN  SubSeq(s, start + 1, Len(s))

\* MessageHistory.num_user_messages (models.py): the number of user-role
\* messages of the history.
RECURSIVE num_user_messages(_)
num_user_messages(messages) ==
    IF messages = <<>> THEN 0
    ELSE (IF Head(messages).role = "user" THEN 1 ELSE 0)
             + num_user_messages(Tail(messages))

\* Faulty variant: one message is kept per user turn.
NumKeepSingle(max_messages) == max_messages

\* num_keep (line 312).
NumKeep(max_messages) == 2 * max_messages

\* Faulty variant: the trimmed list is the tail alone, without the system prompt.
trim_history_no_system(messages, max_messages) ==
    IF max_messages < 1
    THEN messages
    ELSE IF num_user_messages(messages) >= max_messages
    THEN PySliceFrom(messages, Len(messages) - 2 * max_messages)
    ELSE messages

\* Faulty variant: only a negative max_messages keeps all messages.
trim_history_zero_trims(messages, max_messages) ==
    IF max_messages < 0
    THEN messages
    ELSE IF num_user_messages(messages) >= max_messages
    THEN <<messages[1]>>
             \o PySliceFrom(messages, Len(messages) - 2 * max_messages)
    ELSE messages

\* _trim_history: the messages of the history after the call.
trim_history(messages, max_messages) ==
    IF max_messages < 1
    THEN messages
    ELSE IF num_user_messages(messages) >= max_messages
    THEN LET num_keep == NumKeep(max_messages)
             drop_index == Len(messages) - num_keep
         IN  <<messages[1]>> \o PySliceFrom(messages, drop_index)
    ELSE messages

\* Faulty variant: the loop runs once more than the cap.
MoreIterationsOffByOne(n) == n <= MAX_TOOL_ITERATIONS

\* for _iteration in range(MAX_TOOL_ITERATIONS) (line 224): after n calls
\* the loop goes round again.
MoreIterations(n) == n < MAX_TOOL_ITERATIONS

\* Faulty variant: the tool calls are taken from the last to the first.
NextToolCallReversed(tool_calls, pos) == tool_calls[Len(tool_calls) - pos + 1]

\* for tool_call in tool_calls (line 265): the call taken at position pos.
NextToolCall(tool_calls, pos) == tool_calls[pos]

\* Faulty variant: an entry idle for exactly the TTL is dropped.
KeepEntryStrict(timestamp, t) == (t - timestamp) < MAX_HISTORY_SECONDS

\* The condition under which _prune_old_histories keeps an entry.
KeepEntry(timestamp, t) == (t - timestamp) <= MAX_HISTORY_SECONDS

\* _prune_old_histories: the keys of the rebuilt dict.
prune_old_histories(keys, objects, t) ==
    {d \in keys : KeepEntry(objects[d].timestamp, t)}

\* message_convert (lines 248-254): role, content when truthy, tool_calls
\* when truthy.
message_convert(reply) ==
    Message(reply.role,
            IF reply.content # "" THEN reply.content ELSE NoContent,
            reply.tool_calls)

\* json.dumps of a dict given as a sequence of <<key, string value>> pairs.
RECURSIVE JsonItems(_)
JsonItems(pairs) ==
    IF pairs = <<>> THEN ""
    ELSE "\"" \o Head(pairs)[1] \o "\": \"" \o Head(pairs)[2] \o "\""
             \o (IF Len(pairs) > 1 THEN ", " ELSE "")
             \o JsonItems(Tail(pairs))

json_dumps(pairs) == "{" \o JsonItems(pairs) \o "}"

\* Faulty variant: the error dict always has error_text, even when str(e) is
\* empty.
tool_response_text_always(call, outcome) ==
    IF outcome.ok
    THEN <<<<"tool", call.name>>, <<"result", outcome.text>>>>
    ELSE <<<<"error", outcome.kind>>, <<"error_text", outcome.text>>>>

\* tool_response (lines 274-279): the tool's result, or the error dict with
\* error_text only when str(e) is not empty.
tool_response(call, outcome) ==
    IF outcome.ok
    THEN <<<<"tool", call.name>>, <<"result", outcome.text>>>>
    ELSE <<<<"error", outcome.kind>>>>
             \o (IF outcome.text # "" THEN <<<<"error_text", outcome.text>>>>
                 ELSE <<>>)

\* The system prompt (lines 161-191): the rendered template, which holds the
\* user's name, joined with the API prompt when a tool registry is in use.
Prompt(name, api) ==
    "instructions for " \o name \o (IF api THEN "\napi prompt" ELSE "")

\* The messages of the three error responses (lines 134, 179, 238).
ApiErrorText == "Error preparing LLM API"
PromptErrorText == "Sorry, I had a problem generating my prompt"
OllamaErrorText == "Sorry, I had a problem talking to the Ollama server"

\* intent_response.async_set_error / async_set_speech and the
\* ConversationResult built from it.
ErrorResult(message, conversation_id) ==
    [response_type |-> "error", error_code |-> "unknown", speech |-> message,
     conversation_id |-> conversation_id]

SpeechResult(speech, conversation_id) ==
    [response_type |-> "action_done", error_code |-> None, speech |-> speech,
     conversation_id |-> conversation_id]

(***************************************************************************)
(* The environment within the bounds.                                      *)
(***************************************************************************)
\* The conversation ids callers talk on.
Callers == IF env = "solo" THEN {"c1"} ELSE ConvIds

\* The conversations in which the model server asks for tools.
ToolCallers == IF env = "solo" THEN ConvIds ELSE {"c1"}

\* A turn is started on a conversation only while its history is short.
CanStart(c) ==
    /\ c \in Callers
    /\ Len(objs[c].messages) <= (IF env = "solo" THEN MaxLen ELSE MaxSharedLen)

\* llm_api.tools and llm_api.custom_serializer of the API instance that
\* llm.async_get_api returns for the context of a turn of c.
RegistryTools(c) ==
    IF env = "solo" THEN <<ToolLight, ToolScript>>
    ELSE IF c = "c1" THEN <<ToolBare, ToolLight>>
    ELSE <<ToolLight, ToolScript, ToolBare>>

CustomSerializer(c) == IF env = "solo" THEN None ELSE "selector"

\* The names the caller identity resolver may give.
Names == IF env = "solo" THEN UserNames ELSE {None}

\* The replies the model server may give to the pending call of c.
Replies(c) ==
    LET n == iteration[c]
        last == [text |-> response_message[c].content # "",
                 tool_calls |-> response_message[c].tool_calls]
        shapes == IF n <= MaxVaried
                  THEN (IF env = "solo" THEN ReplyShapes ELSE SharedShapes)
                  ELSE IF env = "solo"
                  THEN {PlainShape} \cup ({last} \cap {LoopShape})
                  ELSE {PlainShape}
    IN  {Reply(sh, n) : sh \in {x \in shapes :
             x.tool_calls = <<>> \/ c \in ToolCallers}}

(***************************************************************************)
(* Initial state: the entity after __init__ (line 77: an empty dict), with *)
(* the settings of its config entry.                                       *)
(***************************************************************************)
Init ==
    /\ env \in {"solo", "shared"}
    /\ now = 0
    /\ settings \in [llm_hass_api : BOOLEAN, max_history : MaxHistoryChoices]
    /\ history = {}
    /\ objs = [c \in ConvIds |-> NoHistory]
    /\ pc = [c \in ConvIds |-> "idle"]
    /\ user_input = [c \in ConvIds |-> None]
    /\ llm_api = [c \in ConvIds |-> FALSE]
    /\ tools = [c \in ConvIds |-> <<>>]
    /\ user_name = [c \in ConvIds |-> None]
    /\ iteration = [c \in ConvIds |-> 0]
    /\ response_message = [c \in ConvIds |-> NoReply]
    /\ tool_pos = [c \in ConvIds |-> 0]
    /\ result = [c \in ConvIds |-> NoResult]

(***************************************************************************)
(* async_process, one action per stretch between two suspension points.    *)
(***************************************************************************)
\* Lines 103-125: a caller starts a turn.  conversation_id (line 107) is the
\* id the caller supplied, or a fresh one from ulid_now(), which no entry of
\* the store has.
Start(c) ==
    /\ pc[c] = "idle"
    /\ CanStart(c)
    /\ \E supplied \in BOOLEAN :
          /\ supplied \/ c \notin history
          /\ user_input' = [user_input EXCEPT ![c] = IF supplied THEN c ELSE None]
    /\ pc' = [pc EXCEPT ![c] = IF settings.llm_hass_api THEN "get_api"
                                ELSE "get_user"]
    /\ UNCHANGED <<env, now, settings, history, objs, turn_locals, result>>

\* Lines 125, 139-142: llm.async_get_api returns the API instance.
GetApiOk(c) ==
    /\ pc[c] = "get_api"
    /\ llm_api' = [llm_api EXCEPT ![c] = TRUE]
    /\ tools' = [tools EXCEPT ![c] =
                    [i \in 1..Len(RegistryTools(c)) |->
                        format_tool(RegistryTools(c)[i], CustomSerializer(c))]]
    /\ pc' = [pc EXCEPT ![c] = "get_user"]
    /\ UNCHANGED <<env, now, settings, history, objs, user_input, user_name,
                   iteration, response_message, tool_pos, result>>

\* Lines 130-138: llm.async_get_api raises HomeAssistantError.
GetApiFail(c) ==
    /\ pc[c] = "get_api"
    /\ result' = [result EXCEPT ![c] =
                     ErrorResult(ApiErrorText, user_input[c])]
    /\ pc' = [pc EXCEPT ![c] = "done"]
    /\ UNCHANGED <<env, now, settings, history, objs, user_input, turn_locals>>

\* Lines 144-151: the user's name, when the lookup gives one.
GetUser(c) ==
    /\ pc[c] = "get_user"
    /\ \E name \in Names :
          user_name' = [user_name EXCEPT ![c] = name]
    /\ pc' = [pc EXCEPT ![c] = "resolve"]
    /\ UNCHANGED <<env, now, settings, history, objs, user_input, llm_api, tools,
                   iteration, response_message, tool_pos, result>>

\* Faulty variant: the entry is stored before the template is rendered.
RenderFailStores(c) ==
    /\ pc[c] = "resolve"
    /\ c \notin history
    /\ history' = history \cup {c}
    /\ objs' = [objs EXCEPT ![c] = [timestamp |-> now, messages |-> <<>>]]
    /\ result' = [result EXCEPT ![c] = ErrorResult(PromptErrorText, c)]
    /\ pc' = [pc EXCEPT ![c] = "done"]
    /\ UNCHANGED <<env, now, settings, user_input, turn_locals>>

\* Lines 153-183: no history under the id and the template fails to render.
RenderFail(c) ==
    /\ pc[c] = "resolve"
    /\ c \notin history
    /\ result' = [result EXCEPT ![c] =
                     ErrorResult(PromptErrorText, c)]
    /\ pc' = [pc EXCEPT ![c] = "done"]
    /\ UNCHANGED <<env, now, settings, history, objs, user_input, turn_locals>>

\* A turn holds a reference to its MessageHistory from line 155/194 until it
\* returns; "done" keeps it until the caller has taken the result.
HoldsHistory(d) == pc[d] \in {"chat", "tool", "done"}

\* Faulty variant: a new MessageHistory is built but not put in the store.
ResolveHistoryUnstored(c) ==
    /\ pc[c] = "resolve"
    /\ LET found == c \in history
           system == Message("system", Prompt(user_name[c], llm_api[c]), <<>>)
           looked == IF found THEN objs[c].messages ELSE <<system>>
           stamped == [objs EXCEPT ![c] = [timestamp |-> now, messages |-> looked]]
           kept == prune_old_histories(history, stamped, now)
           trimmed == trim_history(looked, settings.max_history)
           user == Message("user", UserText, <<>>)
       IN  /\ history' = kept
           /\ objs' = [d \in ConvIds |->
                         IF d = c
                         THEN [timestamp |-> now,
                               messages |-> Append(trimmed, user)]
                         ELSE IF d \notin kept /\ ~HoldsHistory(d)
                         THEN NoHistory
                         ELSE objs[d]]
    /\ iteration' = [iteration EXCEPT ![c] = 1]
    /\ pc' = [pc EXCEPT ![c] = "chat"]
    /\ UNCHANGED <<env, now, settings, user_input, llm_api, tools, user_name,
                   response_message, tool_pos, result>>

\* Lines 153-233: look the history up or create it (194-200), or bump its
\* timestamp (203); prune the store (206); trim this history (209-210);
\* append the user message (213-215); issue the first client.chat call.
ResolveHistory(c) ==
    /\ pc[c] = "resolve"
    /\ LET found == c \in history
           system == Message("system", Prompt(user_name[c], llm_api[c]), <<>>)
           looked == IF found THEN objs[c].messages ELSE <<system>>
           stamped == [objs EXCEPT ![c] = [timestamp |-> now, messages |-> looked]]
           kept == prune_old_histories(history \cup {c}, stamped, now)
           trimmed == trim_history(looked, settings.max_history)
           user == Message("user", UserText, <<>>)
       IN  /\ history' = kept
           /\ objs' = [d \in ConvIds |->
                         IF d = c
                         THEN [timestamp |-> now,
                               messages |-> Append(trimmed, user)]
                         ELSE IF d \notin kept /\ ~HoldsHistory(d)
                         THEN NoHistory
                         ELSE objs[d]]
    /\ iteration' = [iteration EXCEPT ![c] = 1]
    /\ pc' = [pc EXCEPT ![c] = "chat"]
    /\ UNCHANGED <<env, now, settings, user_input, llm_api, tools, user_name,
                   response_message, tool_pos, result>>

\* Faulty variant: a failed call is made again.
ChatFailRetry(c) ==
    /\ pc[c] = "chat"
    /\ IF iteration[c] < MAX_TOOL_ITERATIONS
       THEN /\ iteration' = [iteration EXCEPT ![c] = @ + 1]
            /\ UNCHANGED <<pc, result>>
       ELSE /\ result' = [result EXCEPT ![c] = ErrorResult(OllamaErrorText, c)]
            /\ pc' = [pc EXCEPT ![c] = "done"]
            /\ UNCHANGED iteration
    /\ UNCHANGED <<env, now, settings, history, objs, user_input, llm_api, tools,
                   user_name, response_message, tool_pos>>

\* Faulty variant: a failed call takes back the last message the turn appended.
ChatFailRollback(c) ==
    /\ pc[c] = "chat"
    /\ objs' = [objs EXCEPT ![c].messages = SubSeq(@, 1, Len(@) - 1)]
    /\ result' = [result EXCEPT ![c] = ErrorResult(OllamaErrorText, c)]
    /\ pc' = [pc EXCEPT ![c] = "done"]
    /\ UNCHANGED <<env, now, settings, history, user_input, turn_locals>>

\* Lines 234-242: client.chat raises RequestError or ResponseError.
ChatFail(c) ==
    /\ pc[c] = "chat"
    /\ result' = [result EXCEPT ![c] =
                     ErrorResult(OllamaErrorText, c)]
    /\ pc' = [pc EXCEPT ![c] = "done"]
    /\ UNCHANGED <<env, now, settings, history, objs, user_input, turn_locals>>

\* Faulty variant: the loop breaks only on a reply without tool calls, whether
\* or not a tool registry is in use.
ChatReplyIgnoresApi(c) ==
    /\ pc[c] = "chat"
    /\ \E reply \in Replies(c) :
          /\ response_message' = [response_message EXCEPT ![c] = reply]
          /\ objs' = [objs EXCEPT ![c].messages =
                         Append(@, message_convert(reply))]
          /\ IF reply.tool_calls = <<>>
             THEN /\ result' = [result EXCEPT ![c] =
                                   SpeechResult(reply.content, c)]
                  /\ pc' = [pc EXCEPT ![c] = "done"]
                  /\ UNCHANGED tool_pos
             ELSE /\ tool_pos' = [tool_pos EXCEPT ![c] = 1]
                  /\ pc' = [pc EXCEPT ![c] = "tool"]
                  /\ UNCHANGED result
    /\ UNCHANGED <<env, now, settings, history, user_input, llm_api, tools,
                   user_name, iteration>>

\* Lines 244-275, 286-291: client.chat returns; the reply is appended; the
\* turn ends with it (break, line 261) or awaits the first tool call.
ChatReply(c) ==
    /\ pc[c] = "chat"
    /\ \E reply \in Replies(c) :
          /\ response_message' = [response_message EXCEPT ![c] = reply]
          /\ objs' = [objs EXCEPT ![c].messages =
                         Append(@, message_convert(reply))]
          /\ IF reply.tool_calls = <<>> \/ ~llm_api[c]
             THEN /\ result' = [result EXCEPT ![c] =
                                   SpeechResult(reply.content, c)]
                  /\ pc' = [pc EXCEPT ![c] = "done"]
                  /\ UNCHANGED tool_pos
             ELSE /\ tool_pos' = [tool_pos EXCEPT ![c] = 1]
                  /\ pc' = [pc EXCEPT ![c] = "tool"]
                  /\ UNCHANGED result
    /\ UNCHANGED <<env, now, settings, history, user_input, llm_api, tools,
                   user_name, iteration>>

\* Faulty variant: a tool call that raised is awaited again until it succeeds.
ToolReturnRetries(c) ==
    /\ pc[c] = "tool"
    /\ LET tool_calls == response_message[c].tool_calls
           call == NextToolCall(tool_calls, tool_pos[c])
       IN  \E outcome \in ToolOutcomes(call) :
              IF ~outcome.ok
              THEN UNCHANGED <<objs, tool_pos, pc, iteration, result>>
              ELSE /\ objs' = [objs EXCEPT ![c].messages =
                                  Append(@, Message("tool",
                                      json_dumps(tool_response(call, outcome)), <<>>))]
                   /\ IF tool_pos[c] < Len(tool_calls)
                      THEN /\ tool_pos' = [tool_pos EXCEPT ![c] = @ + 1]
                           /\ UNCHANGED <<pc, iteration, result>>
                      ELSE IF MoreIterations(iteration[c])
                      THEN /\ tool_pos' = [tool_pos EXCEPT ![c] = 0]
                           /\ iteration' = [iteration EXCEPT ![c] = @ + 1]
                           /\ pc' = [pc EXCEPT ![c] = "chat"]
                           /\ UNCHANGED result
                      ELSE /\ tool_pos' = [tool_pos EXCEPT ![c] = 0]
                           /\ result' = [result EXCEPT ![c] =
                                            SpeechResult(response_message[c].content, c)]
                           /\ pc' = [pc EXCEPT ![c] = "done"]
                           /\ UNCHANGED iteration
    /\ UNCHANGED <<env, now, settings, history, user_input, llm_api, tools,
                   user_name, response_message>>

\* Lines 275-284, then 265 (next tool call), 224-233 (next client.chat call)
\* or 286-291 (the range is exhausted): async_call_tool returns or raises.
ToolReturn(c) ==
    /\ pc[c] = "tool"
    /\ LET tool_calls == response_message[c].tool_calls
           call == NextToolCall(tool_calls, tool_pos[c])
       IN  /\ \E outcome \in ToolOutcomes(call) :
                 objs' = [objs EXCEPT ![c].messages =
                             Append(@, Message("tool",
                                 json_dumps(tool_response(call, outcome)), <<>>))]
           /\ IF tool_pos[c] < Len(tool_calls)
              THEN /\ tool_pos' = [tool_pos EXCEPT ![c] = @ + 1]
                   /\ UNCHANGED <<pc, iteration, result>>
              ELSE IF MoreIterations(iteration[c])
              THEN /\ tool_pos' = [tool_pos EXCEPT ![c] = 0]
                   /\ iteration' = [iteration EXCEPT ![c] = @ + 1]
                   /\ pc' = [pc EXCEPT ![c] = "chat"]
                   /\ UNCHANGED result
              ELSE /\ tool_pos' = [tool_pos EXCEPT ![c] = 0]
                   /\ result' = [result EXCEPT ![c] =
                                    SpeechResult(response_message[c].content, c)]
                   /\ pc' = [pc EXCEPT ![c] = "done"]
                   /\ UNCHANGED iteration
    /\ UNCHANGED <<env, now, settings, history, user_input, llm_api, tools,
                   user_name, response_message>>

\* The caller takes the result; the turn's locals are gone, and so is a
\* MessageHistory that the store no longer holds.
Return(c) ==
    /\ pc[c] = "done"
    /\ pc' = [pc EXCEPT ![c] = "idle"]
    /\ user_input' = [user_input EXCEPT ![c] = None]
    /\ llm_api' = [llm_api EXCEPT ![c] = FALSE]
    /\ tools' = [tools EXCEPT ![c] = <<>>]
    /\ user_name' = [user_name EXCEPT ![c] = None]
    /\ iteration' = [iteration EXCEPT ![c] = 0]
    /\ response_message' = [response_message EXCEPT ![c] = NoReply]
    /\ tool_pos' = [tool_pos EXCEPT ![c] = 0]
    /\ result' = [result EXCEPT ![c] = NoResult]
    /\ objs' = [objs EXCEPT ![c] = IF c \in history THEN @ ELSE NoHistory]
    /\ UNCHANGED <<env, now, settings, history>>

\* time.monotonic() advances.
Tick ==
    /\ now < MaxClock
    /\ now' = now + 1
    /\ UNCHANGED <<env, settings, history, objs, pc, user_input, turn_locals, result>>

Next ==
    \/ Tick
    \/ \E c \in ConvIds :
          \/ Start(c)
          \/ GetApiOk(c)
          \/ GetApiFail(c)
          \/ GetUser(c)
          \/ RenderFail(c)
          \/ ResolveHistory(c)
          \/ ChatFail(c)
          \/ ChatReply(c)
          \/ ToolReturn(c)
          \/ Return(c)

Spec == Init /\ [][Next]_vars

\* A step of the turn of c: the event loop runs the coroutine on to its next
\* await or to its return.
TurnStep(c) ==
    \/ GetApiOk(c)
    \/ GetApiFail(c)
    \/ GetUser(c)
    \/ RenderFail(c)
    \/ ResolveHistory(c)
    \/ ChatFail(c)
    \/ ChatReply(c)
    \/ ToolReturn(c)

\* Every awaited external call (llm.async_get_api, auth.async_get_user,
\* client.chat, llm_api.async_call_tool) eventually returns or raises, and
\* the event loop then resumes the turn.
FairSpec == Spec /\ \A c \in ConvIds : WF_vars(TurnStep(c))

(***************************************************************************)
(* Notions the claims are stated in.                                       *)
(***************************************************************************)
\* The index of the last user-role message of a list (0 when it has none).
LastUser(m) ==
    CHOOSE i \in 0..Len(m) :
        /\ i = 0 \/ m[i].role = "user"
        /\ \A j \in (i + 1)..Len(m) : m[j].role # "user"

\* The index of the last assistant-role message of a list (0 when none).
LastAssistant(m) ==
    CHOOSE i \in 0..Len(m) :
        /\ i = 0 \/ m[i].role = "assistant"
        /\ \A j \in (i + 1)..Len(m) : m[j].role # "assistant"

\* What the current turn of a history has appended after its user message.
TurnTail(m) == SubSeq(m, LastUser(m) + 1, Len(m))

IsAssistant(x) == x.role = "assistant"

\* The replies of the model server held by a list of messages.
Assistants(m) == SelectSeq(m, IsAssistant)

\* The text of a stored message ("" when it has no content).
TextOf(x) == IF x.content = NoContent THEN "" ELSE x.content

\* A tool-role message that holds the result of a tool call.
IsResultOf(x, call) ==
    /\ x.role = "tool"
    /\ \E outcome \in ToolOutcomes(call) :
          x.content = json_dumps(tool_response(call, outcome))

(***************************************************************************)
(* C1: every MessageHistory in the store has a system-role message at      *)
(* index 0; it is the system prompt made when the entry was created on the *)
(* conversation's first turn, and no later step (trimming, pruning, tool    *)
(* iterations, failed turns) removes or replaces it while the entry stays  *)
(* in the store.                                                           *)
(***************************************************************************)
C1_SystemFirst ==
    \A c \in history :
        /\ Len(objs[c].messages) >= 1
        /\ objs[c].messages[1].role = "system"

C1_SystemKept ==
    \A c \in ConvIds :
        /\ (c \in history /\ c \in history')
              => objs'[c].messages[1] = objs[c].messages[1]
        /\ (c \notin history /\ c \in history')
              => objs'[c].messages[1] =
                     Message("system", Prompt(user_name[c], llm_api[c]), <<>>)

C1_SystemPromptStays == []C1_SystemFirst /\ [][C1_SystemKept]_vars

\* A stored history that trimming has cut: its second message is no longer
\* the first user message, and the system prompt is still in front.
C1_Witness ==
    \E c \in history :
        /\ settings.max_history >= 1
        /\ Len(objs[c].messages) >= 3
        /\ objs[c].messages[1].role = "system"
        /\ objs[c].messages[2].role = "assistant"

(***************************************************************************)
(* C2: a turn calls the model server at most 10 times; with a tool         *)
(* registry in use, a turn in which every reply carried tool calls has     *)
(* made exactly 10 calls when it ends, and ends with a speech (non-error)  *)
(* response whose speech is the content of the 10th reply.                 *)
(***************************************************************************)
C2_IterationCap ==
    \A c \in ConvIds :
        /\ iteration[c] <= 10
        /\ LET replies == Assistants(TurnTail(objs[c].messages))
           IN  ( /\ pc[c] = "done"
                 /\ llm_api[c]
                 /\ result[c].response_type # "error"
                 /\ \A i \in 1..Len(replies) : replies[i].tool_calls # <<>> )
               => /\ iteration[c] = 10
                  /\ Len(replies) = 10
                  /\ result[c].response_type = "action_done"
                  /\ result[c].speech = TextOf(replies[10])
                  /\ result[c].speech = ReplyText(10)

\* A turn that ended at the cap: ten calls, the last reply asking for tools.
C2_Witness ==
    \E c \in ConvIds :
        /\ pc[c] = "done"
        /\ iteration[c] = 10
        /\ response_message[c].tool_calls # <<>>
        /\ result[c].response_type = "action_done"

(***************************************************************************)
(* C3: with a tool registry in use, the tool calls [t1..tk] of a reply are *)
(* invoked one at a time in that order: while call i is awaited the        *)
(* history holds, directly after that assistant message, exactly the       *)
(* results of t1..t(i-1); when the next model-server call is made it holds *)
(* exactly k tool-role messages there, the i-th being the result of ti.    *)
(***************************************************************************)
C3_ToolOrder ==
    \A c \in ConvIds :
        LET m == objs[c].messages
            a == LastAssistant(m)
            after == SubSeq(m, a + 1, Len(m))
            calls == IF a = 0 THEN <<>> ELSE m[a].tool_calls
        IN  /\ pc[c] = "tool"
               => /\ a > 0
                  /\ calls = response_message[c].tool_calls
                  /\ tool_pos[c] \in 1..Len(calls)
                  /\ Len(after) = tool_pos[c] - 1
                  /\ \A i \in 1..Len(after) : IsResultOf(after[i], calls[i])
            /\ (pc[c] = "chat" /\ iteration[c] > 1)
               => /\ a > 0
                  /\ calls # <<>>
                  /\ Len(after) = Len(calls)
                  /\ \A i \in 1..Len(calls) : IsResultOf(after[i], calls[i])

\* The second model-server call of a turn whose first reply asked for two
\* different tool calls.
C3_Witness ==
    \E c \in ConvIds :
        /\ pc[c] = "chat"
        /\ iteration[c] = 2
        /\ response_message[c].tool_calls = <<CallBad, CallOn>>
        /\ Len(objs[c].messages) >= 5

(***************************************************************************)
(* C4: pruning (the prune step of a turn of c) removes an entry of another *)
(* id if and only if now - timestamp > TTL: an entry with                  *)
(* now - timestamp = TTL stays, every entry with now - timestamp <= TTL is *)
(* kept unchanged, and after the step no entry idle for longer than the    *)
(* TTL is left in the store; the store's keys change in no other step.     *)
(***************************************************************************)
PruneStep(c) == pc[c] = "resolve" /\ pc'[c] = "chat"

C4_PruneStep ==
    /\ \A c \in ConvIds :
          PruneStep(c) =>
              /\ history' \subseteq history \cup {c}
              /\ \A d \in history \ {c} :
                    /\ d \in history'
                          <=> now - objs[d].timestamp <= MAX_HISTORY_SECONDS
                    /\ now - objs[d].timestamp = MAX_HISTORY_SECONDS
                          => d \in history'
                    /\ d \in history' => objs'[d] = objs[d]
              /\ \A d \in history' :
                    now - objs'[d].timestamp <= MAX_HISTORY_SECONDS
    /\ history' # history => \E c \in ConvIds : PruneStep(c)

C4_PruneIffOlderThanTTL == [][C4_PruneStep]_vars

\* A turn of c has just pruned the store (its own entry is stamped now) and
\* the entry of d, idle for exactly the TTL, is still there.
C4_Witness ==
    \E c \in ConvIds : \E d \in history \ {c} :
        /\ pc[c] = "chat"
        /\ iteration[c] = 1
        /\ objs[c].timestamp = now
        /\ now - objs[d].timestamp = MAX_HISTORY_SECONDS

(***************************************************************************)
(* C5 as stated: for max_user_turns = N >= 1 and a history of the system   *)
(* prompt followed by 2N+k further messages (k >= 0), the trim step of a   *)
(* turn yields the system prompt followed by the last 2N of them.          *)
(***************************************************************************)
Front(s) == SubSeq(s, 1, Len(s) - 1)

LastOf(s, n) == SubSeq(s, Len(s) - n + 1, Len(s))

\* The number of user-role messages of a list.
UserCount(m) == Cardinality({i \in 1..Len(m) : m[i].role = "user"})

\* The trim step of a turn on a stored history: before it the history is
\* objs[c].messages, after it (and the append of the user message that
\* follows in the same step) it is Front(objs'[c].messages).
TrimStep(c) == PruneStep(c) /\ c \in history

C5_Original ==
    [][\A c \in ConvIds :
          LET n == settings.max_history
              m == objs[c].messages
          IN  (TrimStep(c) /\ n >= 1 /\ Len(m) >= 2 * n + 1)
              => Front(objs'[c].messages) = <<m[1]>> \o LastOf(m, 2 * n)]_vars

(***************************************************************************)
(* C5 amended: for max_user_turns = N >= 1 and a history of the system     *)
(* prompt followed by 2N+k further messages (k >= 0) of which at least N   *)
(* are user-role messages, the trim step yields the system prompt followed *)
(* by the last 2N of them, in their original order.                        *)
(***************************************************************************)
C5_TrimKeepsLast2N ==
    [][\A c \in ConvIds :
          LET n == settings.max_history
              m == objs[c].messages
          IN  (TrimStep(c) /\ n >= 1 /\ Len(m) >= 2 * n + 1
                  /\ UserCount(m) >= n)
              => Front(objs'[c].messages) = <<m[1]>> \o LastOf(m, 2 * n)]_vars

\* A turn just past its trim step whose history was cut (k > 0): the system
\* prompt, 2N older messages that no longer start with the first user
\* message, and the new user message.
C5_Witness ==
    \E c \in history :
        LET n == settings.max_history
            m == objs[c].messages
        IN  /\ n >= 1
            /\ pc[c] = "chat"
            /\ iteration[c] = 1
            /\ Len(m) = 2 * n + 2
            /\ m[2].role \in {"assistant", "tool"}

(***************************************************************************)
(* C6: for max_user_turns = N >= 1, right after the trim step of any turn  *)
(* (before the new user message is appended) the history holds at most N   *)
(* user-role messages.                                                     *)
(***************************************************************************)
C6_AtMostNUserMessages ==
    [][\A c \in ConvIds :
          (PruneStep(c) /\ settings.max_history >= 1)
          => UserCount(Front(objs'[c].messages)) <= settings.max_history]_vars

(***************************************************************************)
(* C7: with max_user_turns < 1 no step shortens or reorders the message    *)
(* list of a conversation that stays in the store: the list before the     *)
(* step is a prefix of the list after it.                                  *)
(***************************************************************************)
IsPrefix(s, t) == Len(s) <= Len(t) /\ s = SubSeq(t, 1, Len(s))

C7_NoTrimBelowOne ==
    [][settings.max_history < 1
          => \A c \in history \cap history' :
                IsPrefix(objs[c].messages, objs'[c].messages)]_vars

\* With max_user_turns < 1, a third turn on a stored history has passed its
\* trim step and the history still holds the two earlier user messages.
C7_Witness ==
    \E c \in history :
        /\ settings.max_history < 1
        /\ pc[c] = "chat"
        /\ UserCount(objs[c].messages) >= 3
        /\ objs[c].messages[2].role = "user"

(***************************************************************************)
(* C8: when a model-server call of a turn fails (the pending call ends     *)
(* without a reply being appended), the same step ends the turn with an    *)
(* error response of code "unknown" that carries the turn's conversation   *)
(* id; the call is not made again, and an ended turn makes no further      *)
(* model-server call and invokes no tool.                                  *)
(***************************************************************************)
\* The turn of c takes a step.
TurnMoves(c) ==
    <<pc[c], iteration[c], tool_pos[c], result[c], objs[c]>>
        # <<pc'[c], iteration'[c], tool_pos'[c], result'[c], objs'[c]>>

C8_Step ==
    \A c \in ConvIds :
        /\ ( /\ pc[c] = "chat"
             /\ TurnMoves(c)
             /\ objs'[c].messages = objs[c].messages )
           => /\ pc'[c] = "done"
              /\ result'[c].response_type = "error"
              /\ result'[c].error_code = "unknown"
              /\ result'[c].speech = OllamaErrorText
              /\ result'[c].conversation_id = c
              /\ iteration'[c] = iteration[c]
        /\ pc[c] = "done"
           => /\ pc'[c] \in {"done", "idle"}
              /\ pc'[c] = "done"
                    => /\ iteration'[c] = iteration[c]
                       /\ tool_pos'[c] = tool_pos[c]
                       /\ objs'[c].messages = objs[c].messages
                       /\ result'[c] = result[c]

C8_ChatFailureEndsTurn == [][C8_Step]_vars

\* A turn ended by the failure of a call that was not its first.
C8_Witness ==
    \E c \in ConvIds :
        /\ pc[c] = "done"
        /\ result[c].speech = OllamaErrorText
        /\ result[c].conversation_id = c
        /\ iteration[c] >= 2

(***************************************************************************)
(* C9: a model-transport failure rolls nothing back: when the turn has     *)
(* ended with that error, the conversation's history ends with the turn's  *)
(* user message followed, for each earlier call of the turn in order, by   *)
(* its assistant message and the results of its tool calls, and by nothing *)
(* else; that history is the store's entry for the id unless it has been   *)
(* idle for longer than the TTL.                                           *)
(***************************************************************************)
\* t is n rounds, each an assistant message with tool calls followed by the
\* results of those calls in order.
RECURSIVE IsRounds(_, _)
IsRounds(t, n) ==
    IF n = 0 THEN t = <<>>
    ELSE /\ t # <<>>
         /\ t[1].role = "assistant"
         /\ t[1].tool_calls # <<>>
         /\ LET k == Len(t[1].tool_calls)
            IN  /\ Len(t) >= 1 + k
                /\ \A i \in 1..k : IsResultOf(t[1 + i], t[1].tool_calls[i])
                /\ IsRounds(SubSeq(t, k + 2, Len(t)), n - 1)

C10_Step ==
    \A c \in ConvIds :
        (pc[c] = "resolve" /\ pc'[c] = "done")
        => /\ c \notin history
           /\ result'[c].response_type = "error"
           /\ result'[c].error_code = "unknown"
           /\ result'[c].speech = PromptErrorText
           /\ result'[c].conversation_id = c
           /\ iteration'[c] = 0
           /\ history' = history
           /\ objs' = objs

C10_NoCallAfterRenderFailure ==
    \A c \in ConvIds :
        (pc[c] = "done" /\ result[c].speech = PromptErrorText)
        => iteration[c] = 0 /\ response_message[c] = NoReply

C10_RenderFailureStoresNothing ==
    []C10_NoCallAfterRenderFailure /\ [][C10_Step]_vars

\* A turn on an id without history ended by a render failure while the
\* store holds the entry of another conversation.
C10_Witness ==
    \E c \in ConvIds :
        /\ pc[c] = "done"
        /\ result[c].speech = PromptErrorText
        /\ result[c].conversation_id = c
        /\ c \notin history
        /\ history # {}

(***************************************************************************)
(* C11: every terminal error response (prompt-render failure, tool-        *)
(* registry-acquisition failure, model-transport failure) carries the      *)
(* conversation id of the turn: the id the caller supplied, or the id      *)
(* generated for the turn when the caller supplied none.                   *)
(***************************************************************************)
C11_ErrorCarriesConversationId ==
    \A c \in ConvIds :
        (pc[c] = "done" /\ result[c].response_type = "error")
        => /\ result[c].speech \in {ApiErrorText, PromptErrorText, OllamaErrorText}
           /\ result[c].conversation_id = c

(***************************************************************************)
(* C12: a tool invocation that fails with vol.Invalid or                   *)
(* HomeAssistantError does not end the turn with an error response: the    *)
(* step appends one tool-role message whose content is the JSON object     *)
(* {"error": kind} (with "error_text" when the exception has a message),   *)
(* then the next tool call of the reply is awaited, or, after the last     *)
(* one, the next model-server call is made with that message in the        *)
(* history (at the iteration cap the turn ends with a speech response).    *)
(* Error responses arise only from the tool-registry acquisition, the      *)
(* prompt rendering and the model-server call.                             *)
(***************************************************************************)
\* The JSON text of the error dict of each failing tool call.
ErrorJson(call) ==
    IF call = CallBad
    THEN "{\"error\": \"Invalid\", \"error_text\": \"unknown area\"}"
    ELSE "{\"error\": \"HomeAssistantError\"}"

C12_Step ==
    \A c \in ConvIds :
        /\ ( /\ pc[c] = "tool"
             /\ TurnMoves(c)
             /\ response_message[c].tool_calls[tool_pos[c]] \in {CallBad, CallErr} )
           => LET calls == response_message[c].tool_calls
                  call == calls[tool_pos[c]]
              IN  /\ objs'[c].messages =
                         Append(objs[c].messages,
                                Message("tool", ErrorJson(call), <<>>))
                  /\ result'[c].response_type # "error"
                  /\ tool_pos[c] < Len(calls)
                        => pc'[c] = "tool" /\ tool_pos'[c] = tool_pos[c] + 1
                  /\ (tool_pos[c] = Len(calls) /\ iteration[c] < MAX_TOOL_ITERATIONS)
                        => pc'[c] = "chat" /\ iteration'[c] = iteration[c] + 1
                  /\ (tool_pos[c] = Len(calls) /\ iteration[c] = MAX_TOOL_ITERATIONS)
                        => pc'[c] = "done" /\ result'[c].response_type = "action_done"
        /\ (result'[c] # result[c] /\ result'[c].response_type = "error")
           => pc[c] \in {"get_api", "resolve", "chat"}

C12_ToolFailureIsRecovered == [][C12_Step]_vars

\* The second model-server call of a turn is pending and the history ends
\* with the error of the failed first tool call and the result of the second.
C12_Witness ==
    \E c \in ConvIds :
        LET m == objs[c].messages
        IN  /\ pc[c] = "chat"
            /\ iteration[c] = 2
            /\ Len(m) >= 4
            /\ m[Len(m) - 1] = Message("tool", ErrorJson(CallBad), <<>>)
            /\ IsResultOf(m[Len(m)], CallOn)

(***************************************************************************)
(* C13: with no tool registry configured, a turn makes at most one         *)
(* model-server call, awaits no tool and its history gains no tool-role    *)
(* message, even if the reply carries tool_calls; a turn that ends without *)
(* an error has made exactly one call, and its speech is the content of    *)
(* that reply, which is the last message of the history.                   *)
(***************************************************************************)
C13_NoRegistryOneCall ==
    ~settings.llm_hass_api
    => \A c \in ConvIds :
          /\ ~llm_api[c]
          /\ iteration[c] <= 1
          /\ pc[c] # "tool"
          /\ \A i \in 1..Len(objs[c].messages) : objs[c].messages[i].role # "tool"
          /\ (pc[c] = "done" /\ result[c].response_type # "error")
             => /\ iteration[c] = 1
                /\ result[c].response_type = "action_done"
                /\ result[c].speech = response_message[c].content
                /\ objs[c].messages[Len(objs[c].messages)]
                      = message_convert(response_message[c])
                /\ TurnTail(objs[c].messages)
                      = <<message_convert(response_message[c])>>

\* Without a tool registry, a turn has ended with a speech response on a
\* reply that carried tool calls.
C13_Witness ==
    \E c \in ConvIds :
        /\ ~settings.llm_hass_api
        /\ pc[c] = "done"
        /\ result[c].response_type = "action_done"
        /\ response_message[c].tool_calls # <<>>
        /\ result[c].speech = ReplyText(1)

(***************************************************************************)
(* C14 as stated: a turn on a conversation id that the store has no entry  *)
(* for (as for every id never seen before) creates one history entry under *)
(* that id whose first message is role=system: when the turn leaves its    *)
(* context and history resolution, for the model-server call or for its    *)
(* end, the store holds that entry.                                        *)
(***************************************************************************)
C14_Original ==
    [][\A c \in ConvIds :
          ( /\ c \notin history
            /\ pc[c] \in {"get_api", "resolve"}
            /\ pc'[c] \in {"chat", "done"} )
          => /\ c \in history'
             /\ objs'[c].messages[1].role = "system"]_vars

(***************************************************************************)
(* C14 amended: a turn on a conversation id that the store has no entry    *)
(* for, and that fails neither on the tool-registry acquisition nor on the *)
(* prompt rendering, creates exactly one history entry, under that id: the *)
(* entry is the system prompt followed by the turn's user message, no      *)
(* other key is added to the store, and no other step adds the key; a turn *)
(* that fails on one of those two creates no entry.                        *)
(***************************************************************************)
C14_Step ==
    \A c \in ConvIds :
        /\ (PruneStep(c) /\ c \notin history)
           => /\ c \in history'
              /\ history' \ history = {c}
              /\ objs'[c].timestamp = now
              /\ objs'[c].messages =
                    <<Message("system", Prompt(user_name[c], llm_api[c]), <<>>),
                      Message("user", UserText, <<>>)>>
              /\ objs'[c].messages[1].role = "system"
        /\ ( /\ c \notin history
             /\ pc[c] \in {"get_api", "resolve"}
             /\ pc'[c] = "done" )
           => /\ history' = history
              /\ objs' = objs
        /\ c \in history' \ history => PruneStep(c)

C14_CreatesOneEntry == [][C14_Step]_vars

\* A turn that was given no id (its id is fresh) has just created its entry
\* while the store holds the entry of another conversation.
C14_Witness ==
    \E c \in history :
        /\ pc[c] = "chat"
        /\ iteration[c] = 1
        /\ user_input[c] = None
        /\ Len(objs[c].messages) = 2
        /\ objs[c].messages[1].role = "system"
        /\ history \ {c} # {}

(***************************************************************************)
(* C15: a turn that arrives on a conversation id whose stored history has  *)
(* been idle for longer than the TTL does not reuse that history's         *)
(* messages: after its history resolution the history in hand is a fresh   *)
(* one, the system prompt followed by the turn's user message.             *)
(***************************************************************************)
C15_StaleHistoryNotReused ==
    [][\A c \in ConvIds :
          ( /\ PruneStep(c)
            /\ c \in history
            /\ now - objs[c].timestamp > MAX_HISTORY_SECONDS )
          => objs'[c].messages =
                <<Message("system", Prompt(user_name[c], llm_api[c]), <<>>),
                  Message("user", UserText, <<>>)>>]_vars

(***************************************************************************)
(* C16: in every stored history, every tool-role message is preceded,      *)
(* through a contiguous run of tool-role messages only, by an assistant    *)
(* message carrying tool_calls, and the run holds no more tool-role        *)
(* messages than that assistant message has tool calls.                    *)
(***************************************************************************)
\* The index of the last message before i that is not tool-role (0: none).
RunStart(m, i) ==
    CHOOSE j \in 0..(i - 1) :
        /\ j = 0 \/ m[j].role # "tool"
        /\ \A k \in (j + 1)..(i - 1) : m[k].role = "tool"

C16_ToolRunsConsistent ==
    \A c \in history :
        LET m == objs[c].messages
        IN  \A i \in 1..Len(m) :
               m[i].role = "tool"
               => LET j == RunStart(m, i)
                  IN  /\ j > 0
                      /\ m[j].role = "assistant"
                      /\ m[j].tool_calls # <<>>
                      /\ i - j <= Len(m[j].tool_calls)

(***************************************************************************)
(* C19: each stored history holds exactly one system-role message, the one *)
(* at index 0, and the trim step of a turn never lengthens the history:    *)
(* for max_user_turns >= 1 the trimmed list is the system prompt followed  *)
(* by a suffix of the previous non-system messages.                        *)
(***************************************************************************)
\* The number of system-role messages of a list.
SystemCount(m) == Cardinality({i \in 1..Len(m) : m[i].role = "system"})

\* t is a suffix of s.
IsSuffix(t, s) == Len(t) <= Len(s) /\ t = SubSeq(s, Len(s) - Len(t) + 1, Len(s))

C19_Step ==
    \A c \in history' :
        /\ SystemCount(objs'[c].messages) = 1
        /\ objs'[c].messages[1].role = "system"
        /\ (TrimStep(c) /\ settings.max_history >= 1)
           => LET m == objs[c].messages
                  t == Front(objs'[c].messages)
              IN  /\ Len(t) <= Len(m)
                  /\ t[1] = m[1]
                  /\ IsSuffix(Tail(t), Tail(m))

C19_OneSystemPromptNoGrowth == [][C19_Step]_vars

(***************************************************************************)
(* C20: while a turn is in flight past its history resolution (it awaits   *)
(* the model server or a tool), the history it is mutating is the store's  *)
(* entry for its conversation id, whatever the turns of other ids do in    *)
(* between; so the entry is there, with every message the turn appended,   *)
(* when the turn returns.                                                  *)
(***************************************************************************)
C20_InFlightEntryStays ==
    \A c \in ConvIds :
        pc[c] \in {"chat", "tool"} => c \in history

(***************************************************************************)
(* C17: the tool formatter gives, for each descriptor of the registry, the *)
(* object {type: "function", function: {name, parameters}} with the        *)
(* descriptor's name and its converted schema; the function object has no  *)
(* description key when the descriptor has no description (None, or the    *)
(* empty text), and has the description verbatim when the descriptor has   *)
(* one; equal descriptors formatted in different turns give equal results. *)
(***************************************************************************)
IsFormatOf(f, tool, custom_serializer) ==
    /\ DOMAIN f = {"type", "function"}
    /\ f.type = "function"
    /\ f.function.name = tool.name
    /\ f.function.parameters = convert(tool.parameters, custom_serializer)
    /\ tool.description \in {None, ""}
          => DOMAIN f.function = {"name", "parameters"}
    /\ tool.description \notin {None, ""}
          => /\ DOMAIN f.function = {"name", "parameters", "description"}
             /\ f.function.description = tool.description

C17_FormatTool ==
    /\ \A c \in ConvIds :
          IF llm_api[c]
          THEN /\ Len(tools[c]) = Len(RegistryTools(c))
               /\ \A i \in 1..Len(tools[c]) :
                     IsFormatOf(tools[c][i], RegistryTools(c)[i], CustomSerializer(c))
          ELSE tools[c] = <<>>
    /\ \A c, d \in ConvIds :
          \A i \in 1..Len(tools[c]) : \A j \in 1..Len(tools[d]) :
             RegistryTools(c)[i] = RegistryTools(d)[j] => tools[c][i] = tools[d][j]

\* Two turns hold their formatted tool lists: one starts with a tool whose
\* empty description gave no description key, the other with a tool whose
\* description was carried over, and the last has a None description.
C17_Witness ==
    \E c, d \in ConvIds :
        /\ llm_api[c] /\ llm_api[d]
        /\ Len(tools[c]) = 2 /\ Len(tools[d]) = 3
        /\ "description" \notin DOMAIN tools[c][1].function
        /\ tools[c][1].function.name = "light_off"
        /\ tools[d][1].function.description = "Turns a light on"
        /\ DOMAIN tools[d][2].function = {"name", "parameters"}

(***************************************************************************)
(* C18: every turn terminates: provided each external call eventually      *)
(* returns or fails, a started turn eventually reaches its end with a      *)
(* speech response or one of the three terminal error responses, and no    *)
(* turn makes more than 10 passes through the model-server / tool cycle.   *)
(***************************************************************************)
Ended(c) ==
    /\ pc[c] = "done"
    /\ \/ result[c].response_type = "action_done"
       \/ /\ result[c].response_type = "error"
          /\ result[c].speech \in {ApiErrorText, PromptErrorText, OllamaErrorText}

C18_TurnTerminates ==
    /\ [](\A c \in ConvIds : iteration[c] <= MAX_TOOL_ITERATIONS)
    /\ \A c \in ConvIds : (pc[c] \notin {"idle", "done"}) ~> Ended(c)

\* A turn that ended on the exhausted range: ten passes, each with a tool
\* result, the history ending with the result of the 10th reply's tool call.
C18_Witness ==
    \E c \in ConvIds :
        LET m == objs[c].messages
        IN  /\ Ended(c)
            /\ iteration[c] = MAX_TOOL_ITERATIONS
            /\ Len(TurnTail(m)) = 2 * MAX_TOOL_ITERATIONS
            /\ m[Len(m)].role = "tool"

====
